---------------------------- MODULE Spec2Model ----------------------------
(***************************************************************************)
(* SyllaBud: the course store kept in the Streamlit session state, the     *)
(* Courses page that mutates it (src/pages/Courses.py) and the Home page   *)
(* that aggregates it (src/Home.py).                                       *)
(*                                                                         *)
(* A Python str is modelled as a sequence of one-character strings, so     *)
(* that split, strip, startswith and "in" are computed character by        *)
(* character as Python computes them.                                      *)
(***************************************************************************)
EXTENDS Integers, Sequences, FiniteSets, TLC

(***************************************************************************)
(* Python's str operations on character sequences.                         *)
(***************************************************************************)

\* The smallest and the largest element of a non-empty set of integers.
SetMin(S) == CHOOSE x \in S : \A y \in S : x <= y

SetMax(S) == CHOOSE x \in S : \A y \in S : x >= y

\* The characters str.strip() removes.
IsSpace(ch) == ch \in {" ", "\t", "\n", "\r"}

\* str.strip()
Strip(s) ==
    LET keep == {i \in 1..Len(s) : ~IsSpace(s[i])}
    IN  IF keep = {} THEN <<>> ELSE SubSeq(s, SetMin(keep), SetMax(keep))

\* str.startswith(prefix)
StartsWith(s, prefix) ==
    /\ Len(prefix) <= Len(s)
    /\ SubSeq(s, 1, Len(prefix)) = prefix

\* str.find(sub) + 1: the position of the first occurrence, 0 when absent.
Find(s, sub) ==
    LET hits == {i \in 1..(Len(s) - Len(sub) + 1) : SubSeq(s, i, i + Len(sub) - 1) = sub}
    IN  IF hits = {} THEN 0 ELSE SetMin(hits)

\* sub in s
Contains(s, sub) == Find(s, sub) # 0

\* str.split(sep): the pieces between the occurrences of sep, found left to
\* right without overlap; always at least one piece.
RECURSIVE Split(_, _)
Split(s, sep) ==
    LET i == Find(s, sep)
    IN  IF i = 0
        THEN <<s>>
        ELSE <<SubSeq(s, 1, i - 1)>> \o Split(SubSeq(s, i + Len(sep), Len(s)), sep)

\* str.replace(old, "")
RECURSIVE Remove(_, _)
Remove(s, old) ==
    LET i == Find(s, old)
    IN  IF i = 0
        THEN s
        ELSE SubSeq(s, 1, i - 1) \o Remove(SubSeq(s, i + Len(old), Len(s)), old)

\* The upper-case letters and their lower-case forms.
UpperCase == <<"A","B","C","D","E","F","G","H","I","J","K","L","M",
               "N","O","P","Q","R","S","T","U","V","W","X","Y","Z">>

LowerCase == <<"a","b","c","d","e","f","g","h","i","j","k","l","m",
               "n","o","p","q","r","s","t","u","v","w","x","y","z">>

LowerChar(ch) ==
    IF \E k \in 1..26 : UpperCase[k] = ch
    THEN LowerCase[CHOOSE k \in 1..26 : UpperCase[k] = ch]
    ELSE ch

\* str.lower()
Lower(s) == [i \in 1..Len(s) |-> LowerChar(s[i])]

\* The concatenation of a list of strings: ''.join(ss).
RECURSIVE Concat(_)
Concat(ss) == IF ss = <<>> THEN <<>> ELSE Head(ss) \o Concat(Tail(ss))

\* [x for x in s if x]: the non-empty strings of a list, in order.
RECURSIVE NonEmpty(_)
NonEmpty(ss) ==
    IF ss = <<>> THEN <<>>
    ELSE IF Head(ss) = <<>> THEN NonEmpty(Tail(ss))
    ELSE <<Head(ss)>> \o NonEmpty(Tail(ss))

\* [line.strip() for line in s.split('\n')]
StrippedLines(s) ==
    LET ls == Split(s, <<"\n">>)
    IN  [i \in 1..Len(ls) |-> Strip(ls[i])]

\* [cell.strip() for cell in row.split('|')] without its empty cells.
Cells(row) ==
    LET cs == Split(row, <<"|">>)
    IN  NonEmpty([i \in 1..Len(cs) |-> Strip(cs[i])])

(***************************************************************************)
(* The literals of src/pages/Courses.py.                                   *)
(***************************************************************************)
TodoMarker == <<"*","*","T","o","-","d","o"," ","L","i","s","t","*","*">>

TodoMarkerBare == <<"T","o","-","d","o"," ","L","i","s","t">>

WeeklyMarker ==
    <<"*","*","W","e","e","k","l","y"," ","S","c","h","e","d","u","l","e","*","*">>

WeeklyMarkerBare ==
    <<"W","e","e","k","l","y"," ","S","c","h","e","d","u","l","e">>

CourseInfoMarker ==
    <<"C","o","u","r","s","e"," ","I","n","f","o","r","m","a","t","i","o","n">>

CoursePrefix == <<"C","o","u","r","s","e",":">>

NewCourseName == <<"N","e","w"," ","C","o","u","r","s","e">>

NameHeaders == {<<"N","a","m","e">>, <<"*","*","N","a","m","e","*","*">>}

WeekHeaders == {<<"W","e","e","k">>, <<"*","*","W","e","e","k","*","*">>}

EvalKeywords == {<<"e","x","a","m">>,
                 <<"a","s","s","i","g","n","m","e","n","t">>,
                 <<"p","r","o","j","e","c","t">>}

(***************************************************************************)
(* The ingestion parser.                                                   *)
(***************************************************************************)

\* The first line of the first '#'-section holding "Course Information"
\* that, stripped, starts with "Course:"; every "Course:" of that line
\* removed and the rest stripped.  "New Course" when there is none.
RECURSIVE FirstCourseLine(_)
FirstCourseLine(lines) ==
    IF lines = <<>> THEN <<>>
    ELSE IF StartsWith(Strip(Head(lines)), CoursePrefix)
         THEN <<Strip(Remove(Head(lines), CoursePrefix))>>
         ELSE FirstCourseLine(Tail(lines))

RECURSIVE FirstCourseName(_)
FirstCourseName(sections) ==
    IF sections = <<>> THEN <<>>
    ELSE LET hit == IF Contains(Head(sections), CourseInfoMarker)
                    THEN FirstCourseLine(Split(Head(sections), <<"\n">>))
                    ELSE <<>>
         IN  IF hit # <<>> THEN hit ELSE FirstCourseName(Tail(sections))

extract_course_name(analysis_text) ==
    LET hit == FirstCourseName(Split(analysis_text, <<"#">>))
    IN  IF hit = <<>> THEN NewCourseName ELSE hit[1]

\* The row filter of parse_todo_list.
IsTodoRow(row) ==
    /\ row # <<>>
    /\ ~StartsWith(row, <<"|","-">>)
    /\ ~StartsWith(row, <<"|"," ","*","*">>)
    /\ Contains(row, <<"|">>)

\* The deliverables of the kept rows, in order.
RECURSIVE TodosOfRows(_)
TodosOfRows(rows) ==
    IF rows = <<>> THEN <<>>
    ELSE LET row   == Head(rows)
             cells == Cells(row)
             keep  == /\ IsTodoRow(row)
                      /\ Len(cells) >= 3
                      /\ cells[1] # <<>>
                      /\ cells[1] \notin NameHeaders
         IN  (IF keep
              THEN <<[name |-> cells[1], weight |-> cells[2], due_date |-> cells[3]]>>
              ELSE <<>>) \o TodosOfRows(Tail(rows))

\* parts[1] of the split on the decorated marker, or on the bare marker when
\* the decorated one is absent; no section when neither occurs.
TodoSection(analysis) ==
    LET parts  == Split(analysis, TodoMarker)
        parts2 == IF Len(parts) < 2 THEN Split(analysis, TodoMarkerBare) ELSE parts
    IN  IF Len(parts2) < 2 THEN <<>> ELSE <<parts2[2]>>

parse_todo_list(analysis) ==
    LET sec == TodoSection(analysis)
    IN  IF sec = <<>> THEN <<>> ELSE TodosOfRows(StrippedLines(sec[1]))

\* IsWeeklyRow with the keywords looked up in the row as written.
IsWeeklyRowCaseSensitive(row) ==
    /\ row # <<>>
    /\ ~StartsWith(row, <<"|","-">>)
    /\ ~StartsWith(row, <<"|"," ","*","*">>)
    /\ Contains(row, <<"|">>)
    /\ ~Contains(row, <<"%">>)
    /\ ~\E keyword \in EvalKeywords : Contains(row, keyword)

\* The row filter of parse_weekly_schedule.
IsWeeklyRow(row) ==
    /\ row # <<>>
    /\ ~StartsWith(row, <<"|","-">>)
    /\ ~StartsWith(row, <<"|"," ","*","*">>)
    /\ Contains(row, <<"|">>)
    /\ ~Contains(row, <<"%">>)
    /\ ~\E keyword \in EvalKeywords : Contains(Lower(row), keyword)

RECURSIVE ScheduleOfRows(_)
ScheduleOfRows(rows) ==
    IF rows = <<>> THEN <<>>
    ELSE LET row   == Head(rows)
             cells == Cells(row)
             keep  == /\ IsWeeklyRow(row)
                      /\ Len(cells) >= 2
                      /\ cells[1] # <<>>
                      /\ cells[1] \notin WeekHeaders
         IN  (IF keep
              THEN <<[week |-> cells[1], content |-> cells[2]]>>
              ELSE <<>>) \o ScheduleOfRows(Tail(rows))

parse_weekly_schedule(analysis) ==
    LET parts  == Split(analysis, WeeklyMarker)
        parts2 == IF Len(parts) < 2 THEN Split(analysis, WeeklyMarkerBare) ELSE parts
    IN  IF Len(parts2) < 2
        THEN <<>>
        ELSE ScheduleOfRows(StrippedLines(Split(parts2[2], TodoMarker)[1]))

(***************************************************************************)
(* Dates: pd.to_datetime(column, format='%B %d, %Y') and                   *)
(* .dt.strftime('%B %d, %Y') of src/Home.py.                               *)
(***************************************************************************)
MonthNames ==
    <<<<"J","a","n","u","a","r","y">>,
      <<"F","e","b","r","u","a","r","y">>,
      <<"M","a","r","c","h">>,
      <<"A","p","r","i","l">>,
      <<"M","a","y">>,
      <<"J","u","n","e">>,
      <<"J","u","l","y">>,
      <<"A","u","g","u","s","t">>,
      <<"S","e","p","t","e","m","b","e","r">>,
      <<"O","c","t","o","b","e","r">>,
      <<"N","o","v","e","m","b","e","r">>,
      <<"D","e","c","e","m","b","e","r">>>>

Digits == <<"0","1","2","3","4","5","6","7","8","9">>

IsDigit(ch) == \E k \in 1..10 : Digits[k] = ch

DigitVal(ch) == (CHOOSE k \in 1..10 : Digits[k] = ch) - 1

\* The value of a string of digits.
RECURSIVE NumVal(_)
NumVal(ds) ==
    IF ds = <<>> THEN 0
    ELSE 10 * NumVal(SubSeq(ds, 1, Len(ds) - 1)) + DigitVal(ds[Len(ds)])

\* How many leading characters of s are white space / are digits.
RECURSIVE LeadingSpaces(_)
LeadingSpaces(s) ==
    IF s # <<>> /\ IsSpace(Head(s)) THEN 1 + LeadingSpaces(Tail(s)) ELSE 0

RECURSIVE LeadingDigits(_)
LeadingDigits(s) ==
    IF s # <<>> /\ IsDigit(Head(s)) THEN 1 + LeadingDigits(Tail(s)) ELSE 0

IsLeap(y) == (y % 4 = 0 /\ y % 100 # 0) \/ y % 400 = 0

DaysInMonth(y, m) ==
    IF m = 2 THEN (IF IsLeap(y) THEN 29 ELSE 28)
    ELSE IF m \in {4, 6, 9, 11} THEN 30 ELSE 31

NoDate == [ok |-> FALSE, y |-> 0, m |-> 0, d |-> 0]

\* The directive '%B %d, %Y' applied to the whole string: a full month name
\* (any letter case), white space, a day of one or two digits, a comma,
\* white space, a year of four digits, and a day the month has.
ParseDate(s) ==
    LET low == Lower(s)
        ms  == {m \in 1..12 : StartsWith(low, Lower(MonthNames[m]))}
    IN  IF ms = {} THEN NoDate
        ELSE
        LET m  == CHOOSE mm \in ms : TRUE
            r1 == SubSeq(s, Len(MonthNames[m]) + 1, Len(s))
            w1 == LeadingSpaces(r1)
            r2 == SubSeq(r1, w1 + 1, Len(r1))
            n2 == LeadingDigits(r2)
            dd == NumVal(SubSeq(r2, 1, n2))
            r3 == SubSeq(r2, n2 + 1, Len(r2))
            r4 == SubSeq(r3, 2, Len(r3))
            w4 == LeadingSpaces(r4)
            r5 == SubSeq(r4, w4 + 1, Len(r4))
            yy == NumVal(r5)
        IN  IF /\ w1 >= 1
               /\ n2 \in {1, 2}
               /\ r3 # <<>> /\ Head(r3) = ","
               /\ w4 >= 1
               /\ Len(r5) = 4 /\ LeadingDigits(r5) = 4
               /\ dd >= 1 /\ dd <= DaysInMonth(yy, m)
            THEN [ok |-> TRUE, y |-> yy, m |-> m, d |-> dd]
            ELSE NoDate

\* The order of two dates is the order of their keys.
DateKey(dt) == dt.y * 10000 + dt.m * 100 + dt.d

\* strftime('%B %d, %Y'): the day zero-padded to two digits.
FormatDate(dt) ==
    MonthNames[dt.m] \o <<" ">>
      \o <<Digits[(dt.d \div 10) + 1], Digits[(dt.d % 10) + 1]>> \o <<",", " ">>
      \o <<Digits[(dt.y \div 1000) + 1], Digits[((dt.y \div 100) % 10) + 1],
           Digits[((dt.y \div 10) % 10) + 1], Digits[(dt.y % 10) + 1]>>

(***************************************************************************)
(* The inputs of the model.                                                *)
(***************************************************************************)

\* How many courses "+ Add Course" creates in a run of the model.
MaxCourses == 2

\* The pieces the analysis texts are made of.
InfoCS1 ==
    <<"#"," ","C","o","u","r","s","e"," ","I","n","f","o","r","m","a","t","i","o","n","\n",
      "C","o","u","r","s","e",":"," ","C","S","1","\n">>

WeeklyCS1 ==
    <<"*","*","W","e","e","k","l","y"," ","S","c","h","e","d","u","l","e","*","*","\n",
      "|"," ","W","1"," ","|"," ","I","n","t","r","o"," ","|","\n">>

TodoHeaderRows ==
    <<"|"," ","*","*","N","a","m","e","*","*"," ","|"," ","*","*","%","*","*"," ","|",
      " ","*","*","D","u","e","*","*"," ","|","\n",
      "|","-","-","-","|","-","-","-","|","-","-","-","|","\n">>

RowHWMarch ==
    <<"|"," ","H","W"," ","|"," ","1","0","%"," ","|"," ",
      "M","a","r","c","h"," ","1",","," ","2","0","2","5"," ","|","\n">>

RowQuizJanuary ==
    <<"|"," ","Q","u","i","z"," ","|"," ","5","%"," ","|"," ",
      "J","a","n","u","a","r","y"," ","1","5",","," ","2","0","2","5"," ","|","\n">>

RowLabNA ==
    <<"|"," ","L","a","b"," ","|"," ","2","0","%"," ","|"," ","N","/","A"," ","|","\n">>

RowHWFebruary ==
    <<"|"," ","H","W"," ","|"," ","5","%"," ","|"," ",
      "F","e","b","r","u","a","r","y"," ","1","0",","," ","2","0","2","5"," ","|","\n">>

\* What the summarization service may answer: a full answer whose due dates
\* all parse and are not in ascending order; an answer without course
\* information and schedule, with a due date "N/A"; an answer with an empty
\* to-do table.
AnalysisFull ==
    InfoCS1 \o WeeklyCS1 \o TodoMarker \o <<"\n">> \o TodoHeaderRows
      \o RowHWMarch \o RowQuizJanuary

AnalysisNA == TodoMarker \o <<"\n">> \o RowLabNA \o RowHWFebruary

AnalysisNoTodos == InfoCS1 \o TodoMarker \o <<"\n">> \o TodoHeaderRows

Analyses == {AnalysisFull, AnalysisNA, AnalysisNoTodos}

\* What the document extractor may return.
Docs == {<<"s","y","l","l","a","b","u","s">>}

\* What the user may type into the rename input.
RenameInputs == {<<"M","y"," ","C","S">>}

\* The parse of each answer, computed once.
ParsedName == [a \in Analyses |-> extract_course_name(a)]

ParsedTodos == [a \in Analyses |-> parse_todo_list(a)]

ParsedSchedule == [a \in Analyses |-> parse_weekly_schedule(a)]

(***************************************************************************)
(* The state.                                                              *)
(***************************************************************************)
VARIABLES
    courses,    \* st.session_state.courses: the records in dict order, each
                \* with its key as field id
    renaming,   \* the ids c with st.session_state["renaming_<c>"] true
    nextId,     \* how many ids uuid4 has generated
    page,       \* the page shown: "Courses" or "Home"
    notice,     \* the st.error annotation the last run of the Courses page
                \* showed, and the id of the course whose tab showed it
    home,       \* what the last run of the Home page displayed
    parse_in,   \* the analysis text handed to the parser on its own
    parse_out   \* what the parser returned for parse_in

vars == <<courses, renaming, nextId, page, notice, home, parse_in, parse_out>>

store == <<courses, renaming, nextId, page, notice, home>>

\* Python's None, and a value that is not None.
None == <<>>

Some(x) == <<x>>

\* dict.get(key, False)
Get(d, key) == IF key \in DOMAIN d THEN d[key] ELSE FALSE

\* d[key] = value
Put(d, key, value) == [k \in (DOMAIN d) \cup {key} |-> IF k = key THEN value ELSE d[k]]

\* The keys of the store, and the position and the record of a key.
Ids == {courses[i].id : i \in 1..Len(courses)}

Pos(c) == CHOOSE i \in 1..Len(courses) : courses[i].id = c

Course(c) == courses[Pos(c)]

\* The names of a course's deliverables.
TodoNames(course) == {course.todos[i].name : i \in 1..Len(course.todos)}

\* The record "+ Add Course" creates.
new_course(c) ==
    [id |-> c,
     name |-> NewCourseName,
     syllabus_text |-> None,
     analysis |-> None,
     file_uploaded |-> FALSE,
     todos |-> <<>>,
     todo_states |-> <<>>,
     weekly_schedule |-> <<>>,
     analysis_complete |-> FALSE]

\* Nothing displayed by the Home page: another page is shown.
NoHome == [kind |-> "none", total_courses |-> 0, total_assignments |-> 0,
           completed_assignments |-> 0, deadlines |-> <<>>, progress |-> <<>>]

\* No annotation is shown.
NoNotice == [tab |-> 0, text |-> "none"]

\* The parser has not run.
NotParsed == [done |-> FALSE, todos |-> <<>>]

Init ==
    /\ courses = <<>>
    /\ renaming = {}
    /\ nextId = 0
    /\ page = "Courses"
    /\ notice = NoNotice
    /\ home = NoHome
    /\ parse_in = <<>>
    /\ parse_out = NotParsed

(***************************************************************************)
(* The Courses page: src/pages/Courses.py.                                 *)
(***************************************************************************)

\* main: "+ Add Course" puts a new record, under a fresh id, before the others.
AddCourse ==
    /\ page = "Courses"
    /\ nextId < MaxCourses
    /\ nextId' = nextId + 1
    /\ courses' = <<new_course(nextId + 1)>> \o courses
    /\ notice' = NoNotice
    /\ UNCHANGED <<renaming, page, home, parse_in, parse_out>>

\* The initialisation keyed by the weight of a deliverable in place of its
\* name.
InitTodoStatesByWeight(todo_states, todos) ==
    LET weights == {todos[i].weight : i \in 1..Len(todos)}
    IN  [k \in (DOMAIN todo_states) \cup weights |->
            IF k \in DOMAIN todo_states THEN todo_states[k] ELSE FALSE]

\* InitTodoStates with every name of todos set to False, a key or not.
InitTodoStatesReset(todo_states, todos) ==
    LET names == {todos[i].name : i \in 1..Len(todos)}
    IN  [k \in (DOMAIN todo_states) \cup names |->
            IF k \in names THEN FALSE ELSE todo_states[k]]

\* course_tab: the todo_states after "Initialize todo states": every name
\* of todos that is no key yet becomes a key with value False.
InitTodoStates(todo_states, todos) ==
    LET names == {todos[i].name : i \in 1..Len(todos)}
    IN  [k \in (DOMAIN todo_states) \cup names |->
            IF k \in DOMAIN todo_states THEN todo_states[k] ELSE FALSE]

\* course_tab: the record after an upload whose document was read as text
\* and whose analysis is truthy.
Analyzed(course, text, analysis) ==
    [course EXCEPT
        !.name = ParsedName[analysis],
        !.syllabus_text = Some(text),
        !.analysis = Some(analysis),
        !.todos = ParsedTodos[analysis],
        !.weekly_schedule = ParsedSchedule[analysis],
        !.file_uploaded = TRUE,
        !.analysis_complete = TRUE,
        !.todo_states = InitTodoStates(course.todo_states, ParsedTodos[analysis])]

\* course_tab: the uploader is shown while file_uploaded is falsy.
CanUpload(c) ==
    /\ page = "Courses"
    /\ c \in Ids
    /\ ~Course(c).file_uploaded

\* course_tab: a file is uploaded, read and analysed; st.rerun() follows.
UploadSuccess(c, text, analysis) ==
    /\ CanUpload(c)
    /\ courses' = [courses EXCEPT ![Pos(c)] = Analyzed(Course(c), text, analysis)]
    /\ notice' = NoNotice
    /\ UNCHANGED <<renaming, nextId, page, home, parse_in, parse_out>>

\* course_tab: read_pdf / read_docx raises; the except clause reports it.
UploadExtractFail(c) ==
    /\ CanUpload(c)
    /\ notice' = [tab |-> c, text |-> "Error processing document"]
    /\ UNCHANGED <<courses, renaming, nextId, page, home, parse_in, parse_out>>

\* The failed analysis of an upload whose text was stored before the call.
UploadAnalyzeFailStoresText(c, text) ==
    /\ CanUpload(c)
    /\ courses' = [courses EXCEPT ![Pos(c)].syllabus_text = Some(text)]
    /\ notice' = [tab |-> c, text |-> "Error with OpenAI API"]
    /\ UNCHANGED <<renaming, nextId, page, home, parse_in, parse_out>>

\* course_tab: analyze_with_openai catches the failure of the call, reports
\* it and returns None.
UploadAnalyzeFail(c, text) ==
    /\ CanUpload(c)
    /\ notice' = [tab |-> c, text |-> "Error with OpenAI API"]
    /\ UNCHANGED <<courses, renaming, nextId, page, home, parse_in, parse_out>>

\* course_tab: the call answers with an empty text, which is falsy: nothing
\* is stored and nothing is reported.
UploadAnalyzeEmpty(c, text) ==
    /\ CanUpload(c)
    /\ notice' = NoNotice
    /\ UNCHANGED <<courses, renaming, nextId, page, home, parse_in, parse_out>>

\* course_tab: the header and the menu of create_text_menu are shown only
\* while file_uploaded is truthy.
MenuShown(c) ==
    /\ page = "Courses"
    /\ c \in Ids
    /\ Course(c).file_uploaded

\* create_text_menu: "Rename Page".
RenameStart(c) ==
    /\ MenuShown(c)
    /\ renaming' = renaming \cup {c}
    /\ notice' = NoNotice
    /\ UNCHANGED <<courses, nextId, page, home, parse_in, parse_out>>

\* course_tab: the confirm button of the rename input.
RenameConfirm(c, new_name) ==
    /\ MenuShown(c)
    /\ c \in renaming
    /\ courses' = [courses EXCEPT ![Pos(c)].name = new_name]
    /\ renaming' = renaming \ {c}
    /\ notice' = NoNotice
    /\ UNCHANGED <<nextId, page, home, parse_in, parse_out>>

\* A reupload that also forgets the name and the completion mapping.
ReuploadForgetsAll(c) ==
    /\ MenuShown(c)
    /\ courses' = [courses EXCEPT ![Pos(c)] = new_course(c)]
    /\ notice' = NoNotice
    /\ UNCHANGED <<renaming, nextId, page, home, parse_in, parse_out>>

\* create_text_menu: "Reupload Syllabus".
Reupload(c) ==
    /\ MenuShown(c)
    /\ courses' = [courses EXCEPT ![Pos(c)].file_uploaded = FALSE]
    /\ notice' = NoNotice
    /\ UNCHANGED <<renaming, nextId, page, home, parse_in, parse_out>>

\* del courses[c]
Without(cs, c) ==
    LET keep == {i \in 1..Len(cs) : cs[i].id # c}
        nth(k) == CHOOSE i \in keep : Cardinality({j \in keep : j < i}) = k - 1
    IN  [k \in 1..Cardinality(keep) |-> cs[nth(k)]]

\* A delete offered in every tab, uploaded or not.
DeleteInEveryTab(c) ==
    /\ page = "Courses"
    /\ c \in Ids
    /\ courses' = Without(courses, c)
    /\ notice' = NoNotice
    /\ UNCHANGED <<renaming, nextId, page, home, parse_in, parse_out>>

\* create_text_menu: "Delete Page".
Delete(c) ==
    /\ MenuShown(c)
    /\ courses' = Without(courses, c)
    /\ notice' = NoNotice
    /\ UNCHANGED <<renaming, nextId, page, home, parse_in, parse_out>>

\* course_tab: the checkboxes are shown when both flags are set and todos
\* is not empty.
CheckboxShown(c, i) ==
    /\ page = "Courses"
    /\ c \in Ids
    /\ Course(c).file_uploaded
    /\ Course(c).analysis_complete
    /\ i \in 1..Len(Course(c).todos)

\* update_todo_state, called with the arguments the checkbox was given.
update_todo_state(c, todo_name, state) ==
    courses' = [courses EXCEPT ![Pos(c)].todo_states = Put(@, todo_name, state)]

\* course_tab: a click on checkbox i of course c.
Toggle(c, i) ==
    /\ CheckboxShown(c, i)
    /\ LET todo == Course(c).todos[i]
       IN  update_todo_state(c, todo.name, ~Get(Course(c).todo_states, todo.name))
    /\ notice' = NoNotice
    /\ UNCHANGED <<renaming, nextId, page, home, parse_in, parse_out>>

(***************************************************************************)
(* The Home page: src/Home.py.                                             *)
(***************************************************************************)

\* sum(1 for state in todo_states.values() if state)
CountTrue(todo_states) == Cardinality({k \in DOMAIN todo_states : todo_states[k]})

\* display_overview_metrics: sum(len(course['todos']) ...)
RECURSIVE TotalAssignments(_)
TotalAssignments(cs) ==
    IF cs = <<>> THEN 0
    ELSE (IF Head(cs).todos # <<>> THEN Len(Head(cs).todos) ELSE 0)
           + TotalAssignments(Tail(cs))

\* display_overview_metrics: the completed count, over the courses whose
\* todo_states is not empty.
RECURSIVE CompletedAssignments(_)
CompletedAssignments(cs) ==
    IF cs = <<>> THEN 0
    ELSE (IF DOMAIN Head(cs).todo_states # {} THEN CountTrue(Head(cs).todo_states) ELSE 0)
           + CompletedAssignments(Tail(cs))

\* The rows of one course without the test of the completion state.
RECURSIVE RowsOfTodosUnfiltered(_, _)
RowsOfTodosUnfiltered(course, todos) ==
    IF todos = <<>> THEN <<>>
    ELSE <<[Course |-> course.name, Task |-> Head(todos).name,
            Weight |-> Head(todos).weight, Due_Date |-> Head(todos).due_date]>>
           \o RowsOfTodosUnfiltered(course, Tail(todos))

\* display_upcoming_deadlines: the rows of one course, for its todos whose
\* state is falsy or absent.
RECURSIVE RowsOfTodos(_, _)
RowsOfTodos(course, todos) ==
    IF todos = <<>> THEN <<>>
    ELSE (IF ~Get(course.todo_states, Head(todos).name)
          THEN <<[Course |-> course.name, Task |-> Head(todos).name,
                  Weight |-> Head(todos).weight, Due_Date |-> Head(todos).due_date]>>
          ELSE <<>>) \o RowsOfTodos(course, Tail(todos))

\* display_upcoming_deadlines: all_todos, course by course in dict order.
RECURSIVE all_todos(_)
all_todos(cs) ==
    IF cs = <<>> THEN <<>>
    ELSE (IF Head(cs).todos # <<>> THEN RowsOfTodos(Head(cs), Head(cs).todos) ELSE <<>>)
           \o all_todos(Tail(cs))

\* The conversion of each due date the answers hold, computed once.
DueDates ==
    UNION {{ParsedTodos[a][i].due_date : i \in 1..Len(ParsedTodos[a])} : a \in Analyses}

ShownDates ==
    DueDates \cup {FormatDate(ParseDate(s)) : s \in {x \in DueDates : ParseDate(x).ok}}

ParsedDue == [s \in ShownDates |-> ParseDate(s)]

\* pd.to_datetime of one value of the column.
to_datetime(s) == IF s \in ShownDates THEN ParsedDue[s] ELSE ParseDate(s)

\* df.sort_values('Due Date'): the orders of the rows S in which the keys
\* ascend.  The default sort is not a stable one, so rows of equal date
\* may come in any order.
RECURSIVE SortedOrders(_, _)
SortedOrders(key, S) ==
    IF S = {} THEN {<<>>}
    ELSE LET least == {i \in S : \A j \in S : key[i] <= key[j]}
         IN  UNION {{<<i>> \o rest : rest \in SortedOrders(key, S \ {i})} : i \in least}

\* The tables of a conversion that turns a date it cannot convert into a
\* missing value (errors='coerce'): the rows that convert are sorted before
\* the others.
DeadlineTablesCoerce(rows) ==
    LET n      == Len(rows)
        parsed == [i \in 1..n |-> to_datetime(rows[i].Due_Date)]
        key    == [i \in 1..n |-> IF parsed[i].ok THEN DateKey(parsed[i]) ELSE 99999999]
    IN  {[k \in 1..n |->
            IF parsed[o[k]].ok
            THEN [rows[o[k]] EXCEPT !.Due_Date = FormatDate(parsed[o[k]])]
            ELSE rows[o[k]]] :
         o \in SortedOrders(key, 1..n)}

\* display_upcoming_deadlines: the tables it may display for the rows.  When
\* every due date converts, the rows sorted by date with the dates formatted
\* back; when to_datetime raises, the bare except leaves the rows as they
\* are.
DeadlineTables(rows) ==
    LET n      == Len(rows)
        parsed == [i \in 1..n |-> to_datetime(rows[i].Due_Date)]
        key    == [i \in 1..n |-> DateKey(parsed[i])]
    IN  IF \A i \in 1..n : parsed[i].ok
        THEN {[k \in 1..n |->
                  [rows[o[k]] EXCEPT !.Due_Date = FormatDate(parsed[o[k]])]] :
              o \in SortedOrders(key, 1..n)}
        ELSE {rows}

display_upcoming_deadlines(cs) == DeadlineTables(all_todos(cs))

\* Python's completed_todos / total_todos, and what int(progress * 100)
\* makes of it.
Percent(completed_todos, total_todos) ==
    IF total_todos = 0
    THEN [kind |-> "ZeroDivisionError", percent |-> 0]
    ELSE [kind |-> "progress", percent |-> (completed_todos * 100) \div total_todos]

\* The card of one course, dividing whenever the total is not negative.
course_progress_unguarded(course) ==
    LET total_todos     == Len(course.todos)
        completed_todos == CountTrue(course.todo_states)
    IN  IF total_todos >= 0
        THEN Percent(completed_todos, total_todos)
        ELSE [kind |-> "No tasks found", percent |-> 0]

\* display_course_progress: the card of one course.
course_progress(course) ==
    LET total_todos     == Len(course.todos)
        completed_todos == CountTrue(course.todo_states)
    IN  IF total_todos > 0
        THEN Percent(completed_todos, total_todos)
        ELSE [kind |-> "No tasks found", percent |-> 0]

\* display_course_progress: a card for each course with both flags set.
RECURSIVE display_course_progress(_)
display_course_progress(cs) ==
    IF cs = <<>> THEN <<>>
    ELSE (IF Head(cs).file_uploaded /\ Head(cs).analysis_complete
          THEN <<[id |-> Head(cs).id, card |-> course_progress(Head(cs))]>>
          ELSE <<>>) \o display_course_progress(Tail(cs))

\* main of Home.py: the dashboard when the store holds courses, the welcome
\* message otherwise.
OpenHome ==
    /\ page = "Courses"
    /\ page' = "Home"
    /\ notice' = NoNotice
    /\ IF courses # <<>>
       THEN \E table \in display_upcoming_deadlines(courses) :
              home' = [kind |-> "dashboard",
                       total_courses |-> Len(courses),
                       total_assignments |-> TotalAssignments(courses),
                       completed_assignments |-> CompletedAssignments(courses),
                       deadlines |-> table,
                       progress |-> display_course_progress(courses)]
       ELSE home' = [NoHome EXCEPT !.kind = "welcome"]
    /\ UNCHANGED <<courses, renaming, nextId, parse_in, parse_out>>

\* main of Courses.py, arriving from the Home page: initialize_session_state
\* finds every field present and changes nothing.
OpenCourses ==
    /\ page = "Home"
    /\ page' = "Courses"
    /\ notice' = NoNotice
    /\ home' = NoHome
    /\ UNCHANGED <<courses, renaming, nextId, parse_in, parse_out>>

(***************************************************************************)
(* The specification.                                                      *)
(***************************************************************************)
Next ==
    \/ AddCourse
    \/ \E c \in Ids, text \in Docs, analysis \in Analyses : UploadSuccess(c, text, analysis)
    \/ \E c \in Ids : UploadExtractFail(c)
    \/ \E c \in Ids, text \in Docs : UploadAnalyzeFail(c, text)
    \/ \E c \in Ids, text \in Docs : UploadAnalyzeEmpty(c, text)
    \/ \E c \in Ids : RenameStart(c)
    \/ \E c \in Ids, new_name \in RenameInputs : RenameConfirm(c, new_name)
    \/ \E c \in Ids : Reupload(c)
    \/ \E c \in Ids : Delete(c)
    \/ \E c \in Ids : \E i \in 1..Len(Course(c).todos) : Toggle(c, i)
    \/ OpenHome
    \/ OpenCourses

Spec == Init /\ [][Next]_vars

(***************************************************************************)
(* The parser on its own: parse_todo_list applied to texts made of up to   *)
(* MaxChunks pieces.                                                       *)
(***************************************************************************)
MaxChunks == 4

RowA == <<"|"," ","A"," ","|"," ","1","0","%"," ","|"," ","x"," ","|","\n">>

RowTwoCells == <<"|"," ","B"," ","|"," ","2","0","%"," ","|","\n">>

RowNameHeader == <<"|"," ","N","a","m","e"," ","|"," ","w"," ","|"," ","d"," ","|","\n">>

RowBoldHeader ==
    <<"|"," ","*","*","N","a","m","e","*","*"," ","|"," ","w"," ","|"," ","d"," ","|","\n">>

RowSeparator == <<"|","-","|","-","|","-","|","\n">>

RowNoOuterPipes == <<"C"," ","|"," ","5","%"," ","|"," ","y","\n">>

LineNotes == <<"n","o","t","e","s","\n">>

Chunks == {TodoMarker, TodoMarkerBare, RowA, RowTwoCells, RowNameHeader,
           RowBoldHeader, RowSeparator, RowNoOuterPipes, LineNotes}

ParseInputs == {Concat(cs) : cs \in UNION {[1..k -> Chunks] : k \in 0..MaxChunks}}

InitParse ==
    /\ courses = <<>>
    /\ renaming = {}
    /\ nextId = 0
    /\ page = "Courses"
    /\ notice = NoNotice
    /\ home = NoHome
    /\ parse_in \in ParseInputs
    /\ parse_out = NotParsed

\* A call of parse_todo_list.
ParseTodos ==
    /\ ~parse_out.done
    /\ parse_out' = [done |-> TRUE, todos |-> parse_todo_list(parse_in)]
    /\ UNCHANGED <<store, parse_in>>

NextParse == ParseTodos

SpecParse == InitParse /\ [][NextParse]_vars

(***************************************************************************)
(* The course-name extraction on its own: extract_course_name applied to   *)
(* an analysis text put together from at most MaxChunks pieces.            *)
(***************************************************************************)
Hash == <<"#">>

LineCourseInfo ==
    <<" ","C","o","u","r","s","e"," ","I","n","f","o","r","m","a","t","i","o","n","\n">>

LineCourseCS1 == <<"C","o","u","r","s","e",":"," ","C","S","1","\n">>

LineCourseIndented == <<" "," ","C","o","u","r","s","e",":"," ","M","A","2"," ","\n">>

LineCourseTwice ==
    <<"C","o","u","r","s","e",":"," ","A"," ","C","o","u","r","s","e",":"," ","B","\n">>

LineSeeCourse == <<"S","e","e"," ","C","o","u","r","s","e",":"," ","X","\n">>

LineTerm == <<"T","e","r","m",":"," ","F","a","l","l","\n">>

NameChunks == {Hash, LineCourseInfo, LineCourseCS1, LineCourseIndented,
               LineCourseTwice, LineSeeCourse, LineTerm}

NameInputs == {Concat(cs) : cs \in UNION {[1..k -> NameChunks] : k \in 0..MaxChunks}}

InitName ==
    /\ courses = <<>>
    /\ renaming = {}
    /\ nextId = 0
    /\ page = "Courses"
    /\ notice = NoNotice
    /\ home = NoHome
    /\ parse_in \in NameInputs
    /\ parse_out = NotParsed

\* A call of extract_course_name.
ParseName ==
    /\ ~parse_out.done
    /\ parse_out' = [done |-> TRUE, course_name |-> extract_course_name(parse_in)]
    /\ UNCHANGED <<store, parse_in>>

NextName == ParseName

SpecName == InitName /\ [][NextName]_vars

(***************************************************************************)
(* The weekly-schedule parser on its own: parse_weekly_schedule applied to *)
(* an analysis text put together from at most MaxChunks lines.             *)
(***************************************************************************)
LineWeeklyMarker == WeeklyMarker \o <<"\n">>

LineWeeklyMarkerBare == WeeklyMarkerBare \o <<"\n">>

LineTodoMarker == TodoMarker \o <<"\n">>

RowWeekIntro ==
    <<"|"," ","W","e","e","k"," ","1"," ","|"," ","I","n","t","r","o"," ","|","\n">>

RowWeekExam ==
    <<"|"," ","W","e","e","k"," ","2"," ","|"," ","M","i","d","t","e","r","m"," ",
      "E","x","a","m"," ","|","\n">>

RowWeekProject ==
    <<"|"," ","W","e","e","k"," ","3"," ","|"," ","P","R","O","J","E","C","T"," ",
      "d","e","m","o"," ","|","\n">>

RowWeekPercent ==
    <<"|"," ","W","e","e","k"," ","4"," ","|"," ","1","0","%"," ","q","u","i","z"," ","|","\n">>

RowWeekAssignment ==
    <<"|"," ","W","e","e","k"," ","5"," ","|"," ","A","s","s","i","g","n","m","e","n","t"," ",
      "1"," ","|","\n">>

RowWeekHeader ==
    <<"|"," ","W","e","e","k"," ","|"," ","C","o","u","r","s","e"," ","C","o","n","t","e","n","t",
      " ","|","\n">>

RowWeekNoOuterPipes == <<"W","6"," ","|"," ","T","r","e","e","s","\n">>

WeeklyChunks == {LineWeeklyMarker, LineWeeklyMarkerBare, LineTodoMarker, RowWeekIntro,
                 RowWeekExam, RowWeekProject, RowWeekPercent, RowWeekAssignment,
                 RowWeekHeader, RowWeekNoOuterPipes}

WeeklyInputs ==
    {Concat(cs) : cs \in UNION {[1..k -> WeeklyChunks] : k \in 0..MaxChunks}}

InitWeekly ==
    /\ courses = <<>>
    /\ renaming = {}
    /\ nextId = 0
    /\ page = "Courses"
    /\ notice = NoNotice
    /\ home = NoHome
    /\ parse_in \in WeeklyInputs
    /\ parse_out = NotParsed

\* A call of parse_weekly_schedule.
ParseWeekly ==
    /\ ~parse_out.done
    /\ parse_out' = [done |-> TRUE, weekly_schedule |-> parse_weekly_schedule(parse_in)]
    /\ UNCHANGED <<store, parse_in>>

NextWeekly == ParseWeekly

SpecWeekly == InitWeekly /\ [][NextWeekly]_vars

(***************************************************************************)
(* The claims.                                                             *)
(***************************************************************************)

\* A step in which course c stays in the store and its file_uploaded flag
\* goes from set to unset: a reupload request.
ReuploadStep(c) ==
    /\ c \in Ids
    /\ c \in Ids'
    /\ Course(c).file_uploaded
    /\ ~Course(c)'.file_uploaded

\* The other records of the store, with their order, are what they were.
OthersUnchanged(c) ==
    /\ Len(courses') = Len(courses)
    /\ \A i \in 1..Len(courses) : courses[i].id # c => courses'[i] = courses[i]

\* C1: in every reachable state every course has its file_uploaded flag and
\* its analysis_complete flag equal.
C1_FlagsEqual ==
    \A i \in 1..Len(courses) :
        courses[i].file_uploaded = courses[i].analysis_complete

\* C2: right after a reupload request the course has both flags unset and
\* its deliverables and weekly schedule empty, so that it contributes no
\* row to the deadline list of the Home page.
C2_ReuploadEmpties ==
    [][\A c \in Ids :
          ReuploadStep(c) =>
              /\ ~Course(c)'.file_uploaded
              /\ ~Course(c)'.analysis_complete
              /\ Course(c)'.todos = <<>>
              /\ Course(c)'.weekly_schedule = <<>>
              /\ all_todos(<<Course(c)'>>) = <<>>]_vars

\* C3: a reupload request leaves the course's completion mapping and name,
\* and every other record of the store, unchanged.
C3_ReuploadFrame ==
    [][\A c \in Ids :
          ReuploadStep(c) =>
              /\ Course(c)'.todo_states = Course(c).todo_states
              /\ Course(c)'.name = Course(c).name
              /\ Course(c)'.id = Course(c).id
              /\ Pos(c)' = Pos(c)
              /\ OthersUnchanged(c)]_vars

\* C3's case: a course whose reupload was requested (only that request
\* unsets file_uploaded while analysis_complete stays set), after it was
\* renamed and one of its deliverables was ticked, beside another course
\* that holds an analysis.
C3_Witness ==
    \E i, j \in 1..Len(courses) :
        /\ i # j
        /\ ~courses[i].file_uploaded
        /\ courses[i].analysis_complete
        /\ courses[i].name \in RenameInputs
        /\ \E k \in DOMAIN courses[i].todo_states : courses[i].todo_states[k]
        /\ courses[j].analysis_complete
        /\ courses[j].todos # <<>>

\* C4, as claimed: in every reachable state the keys of a course's
\* completion mapping are names of its deliverable sequence.
C4_KeysSubsetOfNames ==
    \A i \in 1..Len(courses) :
        DOMAIN courses[i].todo_states \subseteq TodoNames(courses[i])

\* C4, amended: a step adds to a course's completion mapping only keys that
\* are names of the deliverable sequence the course has after the step, and
\* removes no key, so that keys of an earlier analysis stay.
C4_KeysAddedAreNames ==
    [][\A c \in Ids \cap Ids' :
          /\ (DOMAIN Course(c)'.todo_states) \ (DOMAIN Course(c).todo_states)
                \subseteq TodoNames(Course(c)')
          /\ DOMAIN Course(c).todo_states \subseteq DOMAIN Course(c)'.todo_states]_vars

\* C4's case: after a reupload and a second analysis with other names, a
\* course holds keys of both analyses, one of them no name of its
\* deliverables any more.
C4_Witness ==
    \E i \in 1..Len(courses) :
        /\ courses[i].file_uploaded
        /\ \E k \in DOMAIN courses[i].todo_states : k \notin TodoNames(courses[i])
        /\ \E k \in DOMAIN courses[i].todo_states : k \in TodoNames(courses[i])

\* The annotations that report a failed upload.
UploadErrors == {"Error processing document", "Error with OpenAI API"}

\* C5: a step that reports a failed upload in the tab of a course leaves
\* every record of the store as it was, and the uploader of that course
\* is still shown.
C5_FailedUploadFrame ==
    [][notice'.text \in UploadErrors =>
          /\ courses' = courses
          /\ \E c \in Ids : c = notice'.tab /\ CanUpload(c)']_vars

\* C5's case: a failed upload is reported for a course that had been
\* analysed, ticked and sent back to the uploader, beside another course.
C5_Witness ==
    /\ notice.text \in UploadErrors
    /\ Len(courses) = 2
    /\ \E i \in 1..Len(courses) :
          /\ courses[i].id = notice.tab
          /\ courses[i].analysis # None
          /\ courses[i].todos # <<>>
          /\ \E k \in DOMAIN courses[i].todo_states : courses[i].todo_states[k]

\* The deliverables of the store whose completion entry is false or absent,
\* as pairs of the course's and the deliverable's position.
PendingPairs ==
    UNION {{<<i, j>> : j \in {jj \in 1..Len(courses[i].todos) :
                                ~Get(courses[i].todo_states, courses[i].todos[jj].name)}} :
           i \in 1..Len(courses)}

\* What a row shows of the deliverable at a pair, its date aside.
ShownOf(p) ==
    [Course |-> courses[p[1]].name,
     Task   |-> courses[p[1]].todos[p[2]].name,
     Weight |-> courses[p[1]].todos[p[2]].weight]

ShownBy(row) == [Course |-> row.Course, Task |-> row.Task, Weight |-> row.Weight]

\* C6: the deadline list the Home page displays has exactly one row for
\* each deliverable whose completion entry is false or absent, and none for
\* a deliverable whose entry is true.
C6_RowsArePending ==
    home.kind = "dashboard" =>
        /\ Len(home.deadlines) = Cardinality(PendingPairs)
        /\ \A p \in PendingPairs :
              Cardinality({k \in 1..Len(home.deadlines) :
                              ShownBy(home.deadlines[k]) = ShownOf(p)})
                = Cardinality({q \in PendingPairs : ShownOf(q) = ShownOf(p)})

\* C6's case: the Home page is displayed while a course has one deliverable
\* ticked and another one not, and the list has a row.
C6_Witness ==
    /\ home.kind = "dashboard"
    /\ home.deadlines # <<>>
    /\ \E i \in 1..Len(courses) : \E j, k \in 1..Len(courses[i].todos) :
          /\ Get(courses[i].todo_states, courses[i].todos[j].name)
          /\ ~Get(courses[i].todo_states, courses[i].todos[k].name)

\* The one-to-one maps of 1..n onto itself.
Perms(n) == {f \in [1..n -> 1..n] : \A a, b \in 1..n : f[a] = f[b] => a = b}

C7_WitnessFallback ==
    /\ home.kind = "dashboard"
    /\ LET rows == all_todos(courses)
       IN  /\ \E i \in 1..Len(rows) : ~to_datetime(rows[i].Due_Date).ok
           /\ \E i, j \in 1..Len(rows) :
                 /\ i < j
                 /\ to_datetime(rows[i].Due_Date).ok
                 /\ to_datetime(rows[j].Due_Date).ok
                 /\ DateKey(to_datetime(rows[j].Due_Date))
                      < DateKey(to_datetime(rows[i].Due_Date))

\* A step that removes course c from the store: a delete.
DeleteStep(c) ==
    /\ c \in Ids
    /\ c \notin Ids'

\* The store after the step is the store before it without the record of
\* c, the other records unchanged and in their order.
OnlyRemoved(c) ==
    /\ Len(courses') = Len(courses) - 1
    /\ \A i \in 1..Len(courses) :
          /\ i < Pos(c) => courses'[i] = courses[i]
          /\ i > Pos(c) => courses'[i - 1] = courses[i]

\* C8, as claimed: on the Courses page the delete action can be taken on
\* every course of the store, in the Empty state as well as in the
\* Analyzed state.
C8_DeleteInAnyState ==
    page = "Courses" => \A c \in Ids : ENABLED Delete(c)

\* C8, amended: the delete action can be taken on a course exactly while
\* its file_uploaded flag is set, and a step that removes a course removes
\* that record alone.
C8_DeleteWhenUploaded ==
    [][/\ \A c \in Ids :
             (ENABLED Delete(c)) <=> (page = "Courses" /\ Course(c).file_uploaded)
       /\ \A c \in Ids :
             DeleteStep(c) => Course(c).file_uploaded /\ OnlyRemoved(c)]_vars

\* C8's case: of two courses created, one was deleted and the other, which
\* holds an analysis and a ticked deliverable, is still in the store.
C8_Witness ==
    /\ nextId = 2
    /\ Len(courses) = 1
    /\ courses[1].analysis_complete
    /\ \E k \in DOMAIN courses[1].todo_states : courses[1].todo_states[k]

\* C9: the progress card of a course without deliverables is "no tasks"
\* with progress 0, whatever its completion mapping holds, and no card
\* is a division error.
C9_NoTasksNoDivision ==
    /\ \A i \in 1..Len(courses) :
          /\ course_progress(courses[i]).kind # "ZeroDivisionError"
          /\ courses[i].todos = <<>> =>
                course_progress(courses[i]) = [kind |-> "No tasks found", percent |-> 0]
    /\ \A k \in 1..Len(home.progress) :
          /\ home.progress[k].card.kind # "ZeroDivisionError"
          /\ Course(home.progress[k].id).todos = <<>> =>
                home.progress[k].card = [kind |-> "No tasks found", percent |-> 0]

\* C9's case: the Home page shows the card of a course that has no
\* deliverables while its completion mapping holds a true entry.
C9_Witness ==
    /\ home.kind = "dashboard"
    /\ \E k \in 1..Len(home.progress) :
          LET course == Course(home.progress[k].id)
          IN  /\ course.todos = <<>>
              /\ CountTrue(course.todo_states) > 0

\* The text after the first occurrence of the decorated marker, or of the
\* bare one when the decorated one is absent.
AfterFirstMarker(text) ==
    LET i == Find(text, TodoMarker)
        j == Find(text, TodoMarkerBare)
    IN  IF i # 0 THEN <<SubSeq(text, i + Len(TodoMarker), Len(text))>>
        ELSE IF j # 0 THEN <<SubSeq(text, j + Len(TodoMarkerBare), Len(text))>>
        ELSE <<>>

\* A line that passes the row filters, has three non-empty cells or more
\* and a name that is no header.
QualifyingLine(line) ==
    /\ IsTodoRow(line)
    /\ Len(Cells(line)) >= 3
    /\ Cells(line)[1] \notin NameHeaders

\* C10: the deliverables returned are, in input order, one for each
\* qualifying line of all the text after the first occurrence of the
\* marker, also when the marker occurs again in that text.
C10_AllLinesAfterFirstMarker ==
    parse_out.done =>
        LET after == AfterFirstMarker(parse_in)
            lines == IF after = <<>> THEN <<>>
                     ELSE SelectSeq(StrippedLines(after[1]), QualifyingLine)
        IN  parse_out.todos =
                [k \in 1..Len(lines) |->
                    [name     |-> Cells(lines[k])[1],
                     weight   |-> Cells(lines[k])[2],
                     due_date |-> Cells(lines[k])[3]]]

\* The '#'-segments of a text that hold "Course Information".
InfoSegments(text) ==
    SelectSeq(Split(text, Hash), LAMBDA seg : Contains(seg, CourseInfoMarker))

\* The lines of a segment that, trimmed, start with "Course:".
CourseLines(seg) ==
    SelectSeq(Split(seg, <<"\n">>), LAMBDA line : StartsWith(Strip(line), CoursePrefix))

\* A line with its leading "Course:" and the whitespace around it taken away.
WithoutPrefix(line) ==
    LET trimmed == Strip(line)
    IN  Strip(SubSeq(trimmed, Len(CoursePrefix) + 1, Len(trimmed)))

\* C11: a text with no "Course Information" segment gives "New Course";
\* otherwise, when the first such segment has a line starting with
\* "Course:", the result is the first such line with only that prefix and the
\* surrounding whitespace removed.
C11_PrefixOnlyRemoved ==
    parse_out.done =>
        LET segs == InfoSegments(parse_in)
        IN  IF segs = <<>>
            THEN parse_out.course_name = NewCourseName
            ELSE CourseLines(segs[1]) # <<>> =>
                    parse_out.course_name = WithoutPrefix(CourseLines(segs[1])[1])

\* A line without a percent sign and without "exam", "assignment" or
\* "project" in any letter case.
CleanLine(line) ==
    /\ ~Contains(line, <<"%">>)
    /\ \A keyword \in EvalKeywords : ~Contains(Lower(line), keyword)

\* The line has two cells or more and the entry is made of its first two.
EntryFrom(entry, line) ==
    LET cells == Cells(Strip(line))
    IN  /\ Len(cells) >= 2
        /\ entry = [week |-> cells[1], content |-> cells[2]]

\* The entries come, one each and in order, from clean lines among lines.
RECURSIVE FromCleanLines(_, _)
FromCleanLines(entries, lines) ==
    IF entries = <<>> THEN TRUE
    ELSE IF lines = <<>> THEN FALSE
    ELSE IF CleanLine(Head(lines)) /\ EntryFrom(Head(entries), Head(lines))
         THEN FromCleanLines(Tail(entries), Tail(lines))
         ELSE FromCleanLines(entries, Tail(lines))

C13_CompletedAtMostTotal ==
    /\ \A i \in 1..Len(courses) :
          /\ CountTrue(courses[i].todo_states) <= Len(courses[i].todos)
          /\ course_progress(courses[i]).percent \in 0..100
    /\ CompletedAssignments(courses) <= TotalAssignments(courses)
    /\ home.completed_assignments <= home.total_assignments
    /\ \A k \in 1..Len(home.progress) : home.progress[k].card.percent \in 0..100

\* A step in which course c stays in the store and its file_uploaded flag
\* goes from unset to set: a successful analysis.
AnalysisStep(c) ==
    /\ c \in Ids
    /\ c \in Ids'
    /\ ~Course(c).file_uploaded
    /\ Course(c)'.file_uploaded

\* C14: after every step, every name of a course's deliverables is a key
\* of its completion mapping; and a successful analysis keeps every key it
\* finds with the value it has and gives every name that was no key the
\* value false, so that a flag set before a reupload is the flag of the
\* deliverable of the same name afterwards.
C14_NamesAreKeysValuesKept ==
    [][/\ \A i \in 1..Len(courses') :
             TodoNames(courses'[i]) \subseteq DOMAIN courses'[i].todo_states
       /\ \A c \in Ids :
             AnalysisStep(c) =>
                 LET before == Course(c).todo_states
                     after  == Course(c)'.todo_states
                 IN  /\ \A k \in DOMAIN before :
                            k \in DOMAIN after /\ after[k] = before[k]
                     /\ \A k \in TodoNames(Course(c)') \ DOMAIN before :
                            after[k] = FALSE]_vars

\* C14's case: a course analysed twice, with keys of both analyses, whose
\* deliverables now hold one name of the earlier analysis with a true flag
\* and one new name with a false flag.
C14_Witness ==
    \E i \in 1..Len(courses) :
        LET course == courses[i]
        IN  /\ course.file_uploaded
            /\ \E k \in DOMAIN course.todo_states : k \notin TodoNames(course)
            /\ \E k \in TodoNames(course) : course.todo_states[k]
            /\ \E k \in TodoNames(course) : ~course.todo_states[k]

=============================================================================
